---- MODULE Spec2Model ----
(***************************************************************************)
(* Header-chain ingestion core: InsertHeaderChain of                      *)
(* eth/stagedsync/stage_headers.go over the header store (headers, total  *)
(* difficulties, canonical pointers, hash-to-number, head marker).        *)
(*                                                                         *)
(* A header is identified by its hash.  The hash is a digest of the       *)
(* header's fields, so a hash determines parent hash, number and          *)
(* difficulty; the headers offered to InsertHeaderChain are the nodes of  *)
(* a tree rooted at genesis in which every node has one child per         *)
(* difficulty in Difficulties (number = parent's number + 1, the          *)
(* consensus rule the verification engine enforces before insertion).     *)
(*                                                                         *)
(* VerifyHeaders and the select loop of verifyHeaders run against the     *)
(* consensus engine, which is the environment: it reports results on the  *)
(* headers of the request it got and asks for ancestors.                  *)
(***************************************************************************)
EXTENDS Integers, Sequences, FiniteSets, TLC

VARIABLES db, pre, call, ret, pc, verify, engine, hist, ctx, finish, multi

vars == <<db, pre, call, ret, pc, verify, engine, hist, ctx, finish, multi>>

----------------------------------------------------------------------------
(* Bounds *)

MaxNumber == 3          \* highest block number of an offered header
MaxBatch == 3           \* longest linked batch offered in one call
MaxStored == 5          \* non-genesis headers the store may hold
MaxVerify == 2          \* longest batch handed to VerifyHeaders
MaxCheckFreq == 3       \* largest checkFreq handed to VerifyHeaders
GenesisDifficulty == 1  \* configured TD of genesis

----------------------------------------------------------------------------
(* Headers and hashes *)

\* the difficulties of the offered non-genesis headers: 1 .. Branching
Difficulties == {1, 2}

\* children of a header in the tree of offered headers, one per difficulty
Branching == Cardinality(Difficulties)

RECURSIVE Pow(_, _)
Pow(b, e) == IF e = 0 THEN 1 ELSE b * Pow(b, e - 1)

RECURSIVE TreeSize(_)
TreeSize(depth) == IF depth = 0 THEN 1 ELSE Pow(Branching, depth) + TreeSize(depth - 1)

\* common.Hash{}: the zero hash, what a missing canonical entry reads as
ZeroHash == -1
\* nil *types.Header / nil *uint64 / nil *big.Int
Nil == -2
\* uint64(0) - 1, the largest uint64
MaxUint64 == -3

Genesis == 0
Hashes == 0 .. (TreeSize(MaxNumber) - 1)

\* header.ParentHash
ParentHash(h) == IF h = Genesis THEN ZeroHash ELSE (h - 1) \div Branching

\* header.Difficulty
Difficulty(h) == IF h = Genesis THEN GenesisDifficulty ELSE ((h - 1) % Branching) + 1

\* the depth of h in the tree of offered headers
RECURSIVE Depth(_)
Depth(h) == IF h <= Genesis THEN 0 ELSE 1 + Depth(ParentHash(h))

\* the numbers of the offered headers
Numbers == [h \in Hashes |-> Depth(h)]

\* header.Number.Uint64()
Number(h) == IF h \in Hashes THEN Numbers[h] ELSE Depth(h)

\* core.BadHashes: the banned hashes
BadHashes ==
    {h \in Hashes : Number(h) = 2 /\ Difficulty(h) = 2 /\ Difficulty(ParentHash(h)) = 1}

\* uint64 subtraction n - 1, which wraps at 0
Dec(n) == IF n = 0 THEN MaxUint64 ELSE n - 1

\* uint64 comparison a < b
ULess(a, b) == IF a = MaxUint64 THEN FALSE ELSE IF b = MaxUint64 THEN TRUE ELSE a < b

----------------------------------------------------------------------------
(* Header store: reads and batched writes *)

\* rawdb.ReadHeader(db, hash, number)
ReadHeader(d, hash, number) == IF <<number, hash>> \in d.headers THEN hash ELSE Nil

\* rawdb.ReadTd(db, hash, number)
ReadTd(d, hash, number) == IF <<number, hash>> \in DOMAIN d.td THEN d.td[<<number, hash>>] ELSE Nil

\* rawdb.ReadCanonicalHash(db, number)
ReadCanonicalHash(d, number) == IF number \in DOMAIN d.canonical THEN d.canonical[number] ELSE ZeroHash

\* rawdb.ReadHeadHeaderHash(db)
ReadHeadHeaderHash(d) == d.headHash

\* rawdb.ReadHeaderNumber(db, hash)
ReadHeaderNumber(d, hash) == IF hash \in DOMAIN d.headerNumber THEN d.headerNumber[hash] ELSE Nil

\* rawdb.WriteCanonicalHash(batch, hash, number)
WriteCanonicalHash(d, hash, number) == [d EXCEPT !.canonical = (number :> hash) @@ @]

\* rawdb.DeleteCanonicalHash(batch, number)
DeleteCanonicalHash(d, number) ==
    [d EXCEPT !.canonical = [n \in (DOMAIN @) \ {number} |-> @[n]]]

\* rawdb.WriteTd(batch, hash, number, td)
WriteTd(d, hash, number, td) == [d EXCEPT !.td = (<<number, hash>> :> td) @@ @]

\* batch.Put(dbutils.HeadersBucket, dbutils.HeaderKey(number, hash), data)
PutHeader(d, hash, number) == [d EXCEPT !.headers = @ \cup {<<number, hash>>}]

\* batch.Put(dbutils.HeaderNumberBucket, hash, encoded number)
PutHeaderNumber(d, hash, number) == [d EXCEPT !.headerNumber = (hash :> number) @@ @]

\* rawdb.WriteHeadHeaderHash(batch, hash)
WriteHeadHeaderHash(d, hash) == [d EXCEPT !.headHash = hash]

\* the store holding only genesis
GenesisDb ==
    [headers |-> {<<0, Genesis>>},
     td |-> (<<0, Genesis>> :> GenesisDifficulty),
     canonical |-> (0 :> Genesis),
     headerNumber |-> (Genesis :> 0),
     headHash |-> Genesis]

----------------------------------------------------------------------------
(* InsertHeaderChain *)

\* lines 103-128: the walk over the already canonical prefix, with the
\* bad-hash check that follows the comparison in the loop body
RECURSIVE AlreadyCanonical(_, _, _)
AlreadyCanonical(d, headers, i) ==
    IF i > Len(headers)
    THEN [alreadyCanonicalIndex |-> i - 1, bad |-> FALSE]
    ELSE LET h == headers[i]
             ch == ReadCanonicalHash(d, Number(h))
         IN  IF h # ch
             THEN [alreadyCanonicalIndex |-> i - 1, bad |-> FALSE]
             ELSE IF h \in BadHashes
                  THEN [alreadyCanonicalIndex |-> i, bad |-> TRUE]
                  ELSE AlreadyCanonical(d, headers, i + 1)

\* UnknownParent with the parent looked up by its number alone
UnknownParentByNumber(d, headers) ==
    ReadCanonicalHash(d, Dec(Number(headers[1]))) = ZeroHash

\* lines 133-136: the parent of the first header, read by hash and number, is
\* not in the store
UnknownParent(d, headers) ==
    ReadHeader(d, ParentHash(headers[1]), Dec(Number(headers[1]))) = Nil

\* BrokenChain that compares the numbers of neighbours, not their hashes
BrokenChainNumbers(headers) ==
    \E i \in 2 .. Len(headers) : Number(headers[i]) # Number(headers[i - 1]) + 1

\* BrokenChain with the comparison started one header late
BrokenChainFromThird(headers) ==
    \E i \in 3 .. Len(headers) : ParentHash(headers[i]) # headers[i - 1]

\* lines 142-147: some header's ParentHash is not the hash of the one before
BrokenChain(headers) ==
    \E i \in 2 .. Len(headers) : ParentHash(headers[i]) # headers[i - 1]

\* ExternTd started from zero instead of parentTd
RECURSIVE ExternTdFromZero(_, _, _)
ExternTdFromZero(parentTd, headers, i) ==
    IF i > Len(headers) THEN 0
    ELSE Difficulty(headers[i]) + ExternTdFromZero(parentTd, headers, i + 1)

\* lines 141-149: externTd = parentTd + the difficulties of the batch
RECURSIVE ExternTd(_, _, _)
ExternTd(parentTd, headers, i) ==
    IF i > Len(headers) THEN parentTd
    ELSE ExternTd(parentTd + Difficulty(headers[i]), headers, i + 1)

\* NewCanonical with the comparison of the total difficulties reversed
NewCanonicalReversed(externTd, localTd, lastNumber, headNumber, coin) ==
    IF externTd < localTd THEN TRUE
    ELSE IF externTd = localTd
         THEN IF ULess(lastNumber, headNumber) THEN TRUE
              ELSE IF lastNumber = headNumber THEN coin
              ELSE FALSE
         ELSE FALSE

\* NewCanonical with the tie won by the batch that ends above the head
NewCanonicalLongerWins(externTd, localTd, lastNumber, headNumber, coin) ==
    IF externTd > localTd THEN TRUE
    ELSE IF externTd = localTd
         THEN IF ULess(headNumber, lastNumber) THEN TRUE
              ELSE IF lastNumber = headNumber THEN coin
              ELSE FALSE
         ELSE FALSE

\* NewCanonical without the coin: a tie at equal height never replaces the head
NewCanonicalNoCoin(externTd, localTd, lastNumber, headNumber, coin) ==
    IF externTd > localTd THEN TRUE
    ELSE IF externTd = localTd
         THEN IF ULess(lastNumber, headNumber) THEN TRUE
              ELSE FALSE
         ELSE FALSE

\* lines 160-169: the fork choice
NewCanonical(externTd, localTd, lastNumber, headNumber, coin) ==
    IF externTd > localTd THEN TRUE
    ELSE IF externTd = localTd
         THEN IF ULess(lastNumber, headNumber) THEN TRUE
              ELSE IF lastNumber = headNumber THEN coin
              ELSE FALSE
         ELSE FALSE

\* line 165: rand.Float64() is drawn
CoinFlipped(externTd, localTd, lastNumber, headNumber) ==
    externTd = localTd /\ ~ULess(lastNumber, headNumber) /\ lastNumber = headNumber

\* DeepFork without the newCanonical gate
DeepForkUngated(d, headers, newCanonical) ==
    ParentHash(headers[1]) # ReadCanonicalHash(d, Dec(Number(headers[1])))

\* lines 171-178
DeepFork(d, headers, newCanonical) ==
    newCanonical /\ ParentHash(headers[1]) # ReadCanonicalHash(d, Dec(Number(headers[1])))

\* WriteLoopBody that adds the difficulty only for the headers it writes
WriteLoopBodyTdAfterSkip(s, header, newCanonical, deepFork) ==
    LET td == s.td + Difficulty(header)
    IN  IF ~newCanonical /\ ReadHeaderNumber(s.batch, header) # Nil
        THEN [s EXCEPT !.ignored = @ + 1]
        ELSE LET number == Number(header)
                 ch == ReadCanonicalHash(s.batch, number)
                 hashesMatch == header = ch
                 first == newCanonical /\ ~deepFork /\ ~s.fork /\ ~hashesMatch
                 second == ~first /\ newCanonical /\ hashesMatch
                 forkBlockNumber == IF first THEN Dec(number)
                                    ELSE IF second THEN number
                                    ELSE s.forkBlockNumber
                 fork == s.fork \/ first \/ second
                 b1 == IF newCanonical THEN WriteCanonicalHash(s.batch, header, number)
                       ELSE s.batch
                 b2 == WriteTd(b1, header, number, td)
                 b3 == PutHeader(b2, header, number)
             IN  [batch |-> b3, td |-> td, forkBlockNumber |-> forkBlockNumber,
                  fork |-> fork, ignored |-> s.ignored]

\* WriteLoopBody that moves the fork block at every mismatch, not the first
WriteLoopBodyForkEveryMismatch(s, header, newCanonical, deepFork) ==
    LET td == s.td + Difficulty(header)
    IN  IF ~newCanonical /\ ReadHeaderNumber(s.batch, header) # Nil
        THEN [s EXCEPT !.td = td, !.ignored = @ + 1]
        ELSE LET number == Number(header)
                 ch == ReadCanonicalHash(s.batch, number)
                 hashesMatch == header = ch
                 first == newCanonical /\ ~deepFork /\ ~hashesMatch
                 second == ~first /\ newCanonical /\ hashesMatch
                 forkBlockNumber == IF first THEN Dec(number)
                                    ELSE IF second THEN number
                                    ELSE s.forkBlockNumber
                 fork == s.fork \/ first \/ second
                 b1 == IF newCanonical THEN WriteCanonicalHash(s.batch, header, number)
                       ELSE s.batch
                 b2 == WriteTd(b1, header, number, td)
                 b3 == PutHeader(b2, header, number)
             IN  [batch |-> b3, td |-> td, forkBlockNumber |-> forkBlockNumber,
                  fork |-> fork, ignored |-> s.ignored]

\* WriteLoopBody that takes the number of the first mismatch as the fork block
WriteLoopBodyForkAtNumber(s, header, newCanonical, deepFork) ==
    LET td == s.td + Difficulty(header)
    IN  IF ~newCanonical /\ ReadHeaderNumber(s.batch, header) # Nil
        THEN [s EXCEPT !.td = td, !.ignored = @ + 1]
        ELSE LET number == Number(header)
                 ch == ReadCanonicalHash(s.batch, number)
                 hashesMatch == header = ch
                 first == newCanonical /\ ~deepFork /\ ~s.fork /\ ~hashesMatch
                 second == ~first /\ newCanonical /\ hashesMatch
                 forkBlockNumber == IF first THEN number
                                    ELSE IF second THEN number
                                    ELSE s.forkBlockNumber
                 fork == s.fork \/ first \/ second
                 b1 == IF newCanonical THEN WriteCanonicalHash(s.batch, header, number)
                       ELSE s.batch
                 b2 == WriteTd(b1, header, number, td)
                 b3 == PutHeader(b2, header, number)
             IN  [batch |-> b3, td |-> td, forkBlockNumber |-> forkBlockNumber,
                  fork |-> fork, ignored |-> s.ignored]

\* lines 186-222: one iteration of the write loop on the loop state
\* s = [batch, td, forkBlockNumber, fork, ignored]
WriteLoopBody(s, header, newCanonical, deepFork) ==
    LET td == s.td + Difficulty(header)
    IN  IF ~newCanonical /\ ReadHeaderNumber(s.batch, header) # Nil
        THEN [s EXCEPT !.td = td, !.ignored = @ + 1]
        ELSE LET number == Number(header)
                 ch == ReadCanonicalHash(s.batch, number)
                 hashesMatch == header = ch
                 first == newCanonical /\ ~deepFork /\ ~s.fork /\ ~hashesMatch
                 second == ~first /\ newCanonical /\ hashesMatch
                 forkBlockNumber == IF first THEN Dec(number)
                                    ELSE IF second THEN number
                                    ELSE s.forkBlockNumber
                 fork == s.fork \/ first \/ second
                 b1 == IF newCanonical THEN WriteCanonicalHash(s.batch, header, number)
                       ELSE s.batch
                 b2 == WriteTd(b1, header, number, td)
                 b3 == PutHeader(b2, header, number)
             IN  [batch |-> b3, td |-> td, forkBlockNumber |-> forkBlockNumber,
                  fork |-> fork, ignored |-> s.ignored]

\* lines 185-223
RECURSIVE WriteLoop(_, _, _, _, _)
WriteLoop(s, headers, i, newCanonical, deepFork) ==
    IF i > Len(headers) THEN s
    ELSE WriteLoop(WriteLoopBody(s, headers[i], newCanonical, deepFork),
                   headers, i + 1, newCanonical, deepFork)

\* DeepForkLoop that walks back to the common ancestor without rewriting
RECURSIVE DeepForkLoopNoRewrite(_, _, _)
DeepForkLoopNoRewrite(batch, forkHash, forkBlockNumber) ==
    LET ch == ReadCanonicalHash(batch, forkBlockNumber)
    IN  IF forkHash = ch
        THEN [batch |-> batch, forkBlockNumber |-> forkBlockNumber, panic |-> FALSE]
        ELSE LET forkHeader == ReadHeader(batch, forkHash, forkBlockNumber)
             IN  IF forkHeader = Nil
                 THEN [batch |-> batch, forkBlockNumber |-> forkBlockNumber, panic |-> TRUE]
                 ELSE DeepForkLoopNoRewrite(batch, ParentHash(forkHeader),
                                            Dec(Number(forkHeader)))

\* DeepForkLoop that does not stop on a match at block 0
RECURSIVE DeepForkLoopPastGenesis(_, _, _)
DeepForkLoopPastGenesis(batch, forkHash, forkBlockNumber) ==
    LET ch == ReadCanonicalHash(batch, forkBlockNumber)
    IN  IF forkHash = ch /\ forkBlockNumber # 0
        THEN [batch |-> batch, forkBlockNumber |-> forkBlockNumber, panic |-> FALSE]
        ELSE LET b1 == WriteCanonicalHash(batch, forkHash, forkBlockNumber)
                 forkHeader == ReadHeader(b1, forkHash, forkBlockNumber)
             IN  IF forkHeader = Nil
                 THEN [batch |-> b1, forkBlockNumber |-> forkBlockNumber, panic |-> TRUE]
                 ELSE DeepForkLoopPastGenesis(b1, ParentHash(forkHeader),
                                              Dec(Number(forkHeader)))

\* lines 228-243: the backward walk; panic stands for the nil dereference of
\* a forkHeader that is not in the store
RECURSIVE DeepForkLoop(_, _, _)
DeepForkLoop(batch, forkHash, forkBlockNumber) ==
    LET ch == ReadCanonicalHash(batch, forkBlockNumber)
    IN  IF forkHash = ch
        THEN [batch |-> batch, forkBlockNumber |-> forkBlockNumber, panic |-> FALSE]
        ELSE LET b1 == WriteCanonicalHash(batch, forkHash, forkBlockNumber)
                 forkHeader == ReadHeader(b1, forkHash, forkBlockNumber)
             IN  IF forkHeader = Nil
                 THEN [batch |-> b1, forkBlockNumber |-> forkBlockNumber, panic |-> TRUE]
                 ELSE DeepForkLoop(b1, ParentHash(forkHeader), Dec(Number(forkHeader)))

\* DeepForkWalk without the final write of the batch parent's pointer
DeepForkWalkNoParentWrite(batch, headers) ==
    LET forkHeader == ReadHeader(batch, ParentHash(headers[1]), Dec(Number(headers[1])))
        w == DeepForkLoop(batch, ParentHash(forkHeader), Dec(Number(forkHeader)))
    IN  IF forkHeader = Nil
        THEN [batch |-> batch, forkBlockNumber |-> 0, panic |-> TRUE]
        ELSE w

\* DeepForkWalk that reports the number of the batch's parent as the fork block
DeepForkWalkForkAtParent(batch, headers) ==
    LET forkHeader == ReadHeader(batch, ParentHash(headers[1]), Dec(Number(headers[1])))
        w == DeepForkLoop(batch, ParentHash(forkHeader), Dec(Number(forkHeader)))
    IN  IF forkHeader = Nil
        THEN [batch |-> batch, forkBlockNumber |-> 0, panic |-> TRUE]
        ELSE IF w.panic THEN w
        ELSE [batch |-> WriteCanonicalHash(w.batch, ParentHash(headers[1]),
                                           Dec(Number(headers[1]))),
              forkBlockNumber |-> Dec(Number(headers[1])), panic |-> FALSE]

\* lines 224-247
DeepForkWalk(batch, headers) ==
    LET forkHeader == ReadHeader(batch, ParentHash(headers[1]), Dec(Number(headers[1])))
        w == DeepForkLoop(batch, ParentHash(forkHeader), Dec(Number(forkHeader)))
    IN  IF forkHeader = Nil
        THEN [batch |-> batch, forkBlockNumber |-> 0, panic |-> TRUE]
        ELSE IF w.panic THEN w
        ELSE [w EXCEPT !.batch = WriteCanonicalHash(@, ParentHash(headers[1]),
                                                    Dec(Number(headers[1])))]

\* Reorg that also holds when the fork block is the old head
ReorgAtHead(newCanonical, forkBlockNumber, headNumber) ==
    newCanonical /\ ~ULess(headNumber, forkBlockNumber)

\* line 248
Reorg(newCanonical, forkBlockNumber, headNumber) ==
    newCanonical /\ ULess(forkBlockNumber, headNumber)

\* DeleteAboveHead that stops one number below the old head
RECURSIVE DeleteAboveHeadExclusive(_, _, _)
DeleteAboveHeadExclusive(batch, i, headNumber) ==
    IF i >= headNumber THEN batch
    ELSE DeleteAboveHeadExclusive(DeleteCanonicalHash(batch, i), i + 1, headNumber)

\* DeleteAboveHead that removes the header records of the numbers as well
RECURSIVE DeleteAboveHeadWithHeaders(_, _, _)
DeleteAboveHeadWithHeaders(batch, i, headNumber) ==
    IF i > headNumber THEN batch
    ELSE DeleteAboveHeadWithHeaders(
             [DeleteCanonicalHash(batch, i) EXCEPT
                 !.headers = {h \in @ : h[1] # i}], i + 1, headNumber)

\* lines 249-256: delete the canonical entries lastNumber+1 .. headNumber
RECURSIVE DeleteAboveHead(_, _, _)
DeleteAboveHead(batch, i, headNumber) ==
    IF i > headNumber THEN batch
    ELSE DeleteAboveHead(DeleteCanonicalHash(batch, i), i + 1, headNumber)

\* HeadUpdate without the hash-to-number record
HeadUpdateNoNumber(batch, lastHeader) ==
    WriteHeadHeaderHash(batch, lastHeader)

\* lines 257-265
HeadUpdate(batch, lastHeader) ==
    WriteHeadHeaderHash(PutHeaderNumber(batch, lastHeader, Number(lastHeader)), lastHeader)

NoLocals ==
    [headers |-> <<>>, externTd |-> Nil, localTd |-> Nil, headNumber |-> Nil,
     deepFork |-> FALSE, ignored |-> 0, coinFlipped |-> FALSE]

\* an early return: (false, false, 0, err), nothing committed; points are the
\* store accesses that the call went through before it returned
Return(d, err, headers, points) ==
    [db |-> d, newCanonical |-> FALSE, reorg |-> FALSE, forkBlockNumber |-> 0,
     err |-> err, locals |-> [NoLocals EXCEPT !.headers = headers], points |-> points]

\* a store access: the line of the call and the contents of the batch there
Point(line, batch) == [at |-> line, batch |-> batch]

\* Abort with the writes made so far applied to the store
AbortKeepsBatch(d, batch, err) ==
    [db |-> batch, newCanonical |-> FALSE, reorg |-> FALSE, forkBlockNumber |-> 0,
     err |-> err, locals |-> NoLocals, points |-> {}]

\* a store access fails: return (false, false, 0, err); the batch is dropped
\* without a commit
Abort(d, batch, err) ==
    [db |-> d, newCanonical |-> FALSE, reorg |-> FALSE, forkBlockNumber |-> 0,
     err |-> err, locals |-> NoLocals, points |-> {}]

\* batch.Commit() fails: no write of the batch becomes visible
CommitFailed(d, batch, err) ==
    [db |-> d, newCanonical |-> FALSE, reorg |-> FALSE, forkBlockNumber |-> 0,
     err |-> err, locals |-> NoLocals, points |-> {}]

\* lines 195-221: the store accesses of the write loop, one per header that
\* is not skipped, each with the batch as the headers before it left it
LoopPoints(s0, headers, newCanonical, deepFork) ==
    {Point(196, WriteLoop(s0, SubSeq(headers, 1, k - 1), 1, newCanonical, deepFork).batch) :
        k \in {j \in 1 .. Len(headers) :
                  newCanonical \/ ReadHeaderNumber(s0.batch, headers[j]) = Nil}}

\* lines 150-289, after the pre-checks on the remaining headers
InsertChecked(d, headers, parentTd, coin) ==
    LET externTd == ExternTd(parentTd, headers, 1)
        headHash == ReadHeadHeaderHash(d)
        headNumber == ReadHeaderNumber(d, headHash)
        localTd == ReadTd(d, headHash, headNumber)
        lastHeader == headers[Len(headers)]
        newCanonical == NewCanonical(externTd, localTd, Number(lastHeader), headNumber, coin)
        deepFork == DeepFork(d, headers, newCanonical)
        s0 == [batch |-> d, td |-> parentTd, forkBlockNumber |-> 0, fork |-> FALSE,
               ignored |-> 0]
        s1 == WriteLoop(s0, headers, 1, newCanonical, deepFork)
        w == IF deepFork THEN DeepForkWalk(s1.batch, headers)
             ELSE [batch |-> s1.batch, forkBlockNumber |-> s1.forkBlockNumber,
                   panic |-> FALSE]
        reorg == Reorg(newCanonical, w.forkBlockNumber, headNumber)
        b2 == IF reorg THEN DeleteAboveHead(w.batch, Number(lastHeader) + 1, headNumber)
              ELSE w.batch
        b3 == IF newCanonical THEN HeadUpdate(b2, lastHeader) ELSE b2
        early == {Point(107, d), Point(138, d), Point(153, d), Point(173, d)}
        points ==
            early \cup LoopPoints(s0, headers, newCanonical, deepFork)
                  \cup (IF deepFork THEN {Point(230, s1.batch)} ELSE {})
                  \cup (IF reorg /\ Number(lastHeader) + 1 <= headNumber
                        THEN {Point(252, w.batch)} ELSE {})
                  \cup (IF newCanonical THEN {Point(259, b2)} ELSE {})
                  \cup {Point(266, b3)}
    IN  IF headNumber = Nil THEN Return(d, "panic", headers, {Point(107, d), Point(138, d)})
        ELSE IF localTd = Nil
             THEN Return(d, "panic", headers, {Point(107, d), Point(138, d), Point(153, d)})
        ELSE IF w.panic THEN Return(d, "panic", headers, early)
        ELSE [db |-> b3, newCanonical |-> newCanonical, reorg |-> reorg,
              forkBlockNumber |-> w.forkBlockNumber, err |-> "nil",
              locals |-> [headers |-> headers, externTd |-> externTd, localTd |-> localTd,
                          headNumber |-> headNumber, deepFork |-> deepFork,
                          ignored |-> s1.ignored,
                          coinFlipped |-> CoinFlipped(externTd, localTd,
                                                      Number(lastHeader), headNumber)],
              points |-> points]

\* lines 99-290
InsertHeaderChainResult(d, input, coin) ==
    LET p == AlreadyCanonical(d, input, 1)
        headers == SubSeq(input, p.alreadyCanonicalIndex + 1, Len(input))
        read == IF Len(input) > 0 THEN {Point(107, d)} ELSE {}
    IN  IF p.bad THEN Return(d, "ErrBlacklistedHash", <<>>, read)
        ELSE IF Len(headers) < 1 THEN Return(d, "nil", headers, read)
        ELSE LET parentNumber == Dec(Number(headers[1]))
                 parentTd == ReadTd(d, ParentHash(headers[1]), parentNumber)
             IN  IF UnknownParent(d, headers)
                 THEN Return(d, "unknown parent", headers, read)
                 ELSE IF parentTd = Nil THEN Return(d, "panic", headers, read)
                 ELSE IF BrokenChain(headers)
                      THEN Return(d, "broken chain", headers, read \cup {Point(138, d)})
                 ELSE InsertChecked(d, headers, parentTd, coin)

----------------------------------------------------------------------------
(* The batches offered to InsertHeaderChain *)

RECURSIVE Ancestor(_, _)
Ancestor(h, k) == IF k = 0 THEN h ELSE Ancestor(ParentHash(h), k - 1)

\* the linked chain of l headers that ends in h
Segment(h, l) == [i \in 1 .. l |-> Ancestor(h, l - i)]

Chains == {Segment(h, l) : h \in Hashes, l \in 1 .. MaxBatch} \cap Seq(Hashes)

\* a header of number 0 or 1 followed by one of number 0, 1 or 2, in general
\* not linked to it
Spliced ==
    {<<a, b>> : a \in {x \in Hashes : Number(x) <= 1},
                b \in {x \in Hashes : Number(x) <= 2}}

Batches == {<<>>} \cup Chains \cup Spliced

----------------------------------------------------------------------------
(* Specification *)

NoCall == [headers |-> <<>>, coin |-> FALSE, failedAt |-> "none"]

\* no store access of the call fails
NoFailure == [at |-> 0, batch |-> GenesisDb]

NoRet ==
    [newCanonical |-> FALSE, reorg |-> FALSE, forkBlockNumber |-> 0, err |-> "none",
     locals |-> NoLocals]

\* no verification is in progress
NoVerify ==
    [pc |-> "idle", headers |-> <<>>, seals |-> <<>>, toVerify |-> 0,
     reqResponses |-> {}, err |-> "none"]

\* the engine's side of the channels: the last VerifyHeaderRequest it got
\* and the result it is sending on engine.VerifyResults(), which
\* verifyHeaders has not received yet
NoEngine ==
    [headerVerification |-> [headers |-> <<>>, seal |-> <<>>],
     verifyResults |-> <<>>]

\* what the current call of VerifyHeaders has sent and received so far
NoHist ==
    [checkFreq |-> 0, requestsSent |-> 0, okHashes |-> {}, duplicate |-> FALSE,
     last |-> [kind |-> "none"]]

\* no multi-iterator has been built
NoMulti ==
    [pc |-> "none", smaller |-> FALSE, from |-> <<>>, to |-> <<>>,
     fromRest |-> <<>>, toRest |-> <<>>, nextFrom |-> 0, fromEnd |-> FALSE,
     nextTo |-> 0, toEnd |-> FALSE, out |-> <<>>, eof |-> FALSE]

\* the finish stage before its first run: no progress recorded, nobody
\* notified; execution has not run
NoFinish ==
    [blockNumber |-> 0, executionAt |-> 0, notified |-> <<>>,
     run |-> [notifier |-> FALSE, fail |-> "none", from |-> 0, to |-> 0,
              delivered |-> <<>>, err |-> "none", number |-> 0]]

Init ==
    /\ db = GenesisDb
    /\ pre = GenesisDb
    /\ call = NoCall
    /\ ret = NoRet
    /\ pc = "idle"
    /\ verify = NoVerify
    /\ engine = NoEngine
    /\ hist = NoHist
    /\ ctx = "live"
    /\ finish = NoFinish
    /\ multi = NoMulti

\* a store access of the call fails: the call returns the error
Failed(d, point) ==
    IF point.at = 266 THEN CommitFailed(d, point.batch, "commit error")
    ELSE Abort(d, point.batch, "store error")

\* the step of the call that a store access belongs to: the reads before the
\* batch is opened at line 182, the reads and writes on the batch, the commit
Step(line) ==
    IF line = 0 THEN "none"
    ELSE IF line < 182 THEN "read"
    ELSE IF line = 266 THEN "commit"
    ELSE "write"

\* one call of InsertHeaderChain(logPrefix, db, headers, verificationTime);
\* coin is the outcome of rand.Float64() < 0.5, drawn only by a call that
\* reaches line 165; with failing, one of the store accesses that the call
\* makes may return an error
Call(failing) ==
    /\ pc = "idle"
    /\ \E headers \in Batches :
        \E heads \in {InsertHeaderChainResult(db, headers, TRUE)} :
            \E coin \in IF heads.locals.coinFlipped THEN BOOLEAN ELSE {FALSE} :
                \E ok \in {IF coin \/ ~heads.locals.coinFlipped THEN heads
                            ELSE InsertHeaderChainResult(db, headers, FALSE)} :
                    /\ Cardinality(ok.db.headers) <= MaxStored + 1
                    /\ \E point \in IF failing THEN {NoFailure} \cup ok.points
                                    ELSE {NoFailure} :
                        \E r \in {IF point = NoFailure THEN ok ELSE Failed(db, point)} :
                            /\ pc' = "returned"
                            /\ db' = r.db
                            /\ pre' = db
                            /\ call' = [headers |-> headers,
                                        coin |-> coin /\ r.locals.coinFlipped,
                                        failedAt |-> Step(point.at)]
                            /\ ret' = [newCanonical |-> r.newCanonical, reorg |-> r.reorg,
                                       forkBlockNumber |-> r.forkBlockNumber, err |-> r.err,
                                       locals |-> r.locals]
    /\ UNCHANGED <<verify, engine, hist, ctx, finish, multi>>

\* a call whose store accesses all succeed
InsertHeaderChain == Call(FALSE)

\* a call over a store whose accesses may fail
InsertHeaderChainStoreErr == Call(TRUE)

\* the caller takes the returned values and is ready for its next batch
Returned ==
    /\ pc = "returned"
    /\ pc' = "idle"
    /\ pre' = db
    /\ call' = NoCall
    /\ ret' = NoRet
    /\ UNCHANGED <<db, verify, engine, hist, ctx, finish, multi>>

Next == InsertHeaderChain \/ Returned

Spec == Init /\ [][Next]_vars

\* the calls over a store whose accesses may fail
NextFail == InsertHeaderChainStoreErr \/ Returned

SpecFail == Init /\ [][NextFail]_vars

----------------------------------------------------------------------------
(* VerifyHeaders and verifyHeaders, with the consensus engine as environment *)

\* lines 82-94: the seal bitmap, indexed from 0 as in the code; panic is the
\* index out of range of seals[len(seals)-1] on an empty slice
Seals(len, checkFreq) ==
    LET index(i) == IF i * checkFreq >= len THEN len - 1 ELSE i * checkFreq
        marked == IF checkFreq # 0
                  THEN {index(i) : i \in 0 .. (len \div checkFreq) - 1}
                  ELSE {}
    IN  IF checkFreq # 0 /\ len = 0
        THEN [panic |-> TRUE, seals |-> <<>>]
        ELSE [panic |-> FALSE,
              seals |-> [j \in 0 .. len - 1 |->
                            checkFreq # 0 /\ (j \in marked \/ j = len - 1)]]

\* VerifyResult with the duplicate test made before the error test
VerifyResultDuplicateFirst(v, result) ==
    IF result.hash \in v.reqResponses THEN v
    ELSE IF result.err # "nil"
    THEN [v EXCEPT !.pc = "returned", !.err = result.err]
    ELSE LET reqResponses == v.reqResponses \cup {result.hash}
         IN  IF Cardinality(reqResponses) = v.toVerify
             THEN [v EXCEPT !.reqResponses = reqResponses, !.pc = "returned", !.err = "nil"]
             ELSE [v EXCEPT !.reqResponses = reqResponses]

\* VerifyResult that takes a repeated hash as the end of the verification
VerifyResultEndsOnDuplicate(v, result) ==
    IF result.err # "nil"
    THEN [v EXCEPT !.pc = "returned", !.err = result.err]
    ELSE IF result.hash \in v.reqResponses
    THEN [v EXCEPT !.pc = "returned", !.err = "nil"]
    ELSE LET reqResponses == v.reqResponses \cup {result.hash}
         IN  IF Cardinality(reqResponses) = v.toVerify
             THEN [v EXCEPT !.reqResponses = reqResponses, !.pc = "returned", !.err = "nil"]
             ELSE [v EXCEPT !.reqResponses = reqResponses]

\* lines 339-352: case result := <-engine.VerifyResults()
VerifyResult(v, result) ==
    IF result.err # "nil"
    THEN [v EXCEPT !.pc = "returned", !.err = result.err]
    ELSE IF result.hash \in v.reqResponses THEN v
    ELSE LET reqResponses == v.reqResponses \cup {result.hash}
         IN  IF Cardinality(reqResponses) = v.toVerify
             THEN [v EXCEPT !.reqResponses = reqResponses, !.pc = "returned", !.err = "nil"]
             ELSE [v EXCEPT !.reqResponses = reqResponses]

\* lines 371-385: the backward walk from (parentNumber, parentHash) down to
\* number lowest
RECURSIVE AncestorLoop(_, _, _, _, _)
AncestorLoop(d, parentHash, parentNumber, lowest, headers) ==
    IF parentNumber < lowest
    THEN [headers |-> headers, parentHash |-> parentHash,
          parentNumber |-> parentNumber, err |-> "nil"]
    ELSE LET h == ReadHeader(d, parentHash, parentNumber)
         IN  IF h = Nil
             THEN [headers |-> headers, parentHash |-> parentHash,
                   parentNumber |-> parentNumber, err |-> "ErrUnknownParent"]
             ELSE AncestorLoop(d, ParentHash(h), parentNumber - 1, lowest,
                               Append(headers, h))

NoBlockError == [hash |-> ZeroHash, number |-> 0, err |-> "nil"]

\* HeaderResponse without the clamp of result.Number
HeaderResponseNoClamp(d, result) ==
    LET l == AncestorLoop(d, result.highestHash, result.highestBlockNumber,
                          result.highestBlockNumber + 1 - result.number, <<>>)
    IN  IF l.err # "nil"
        THEN [id |-> result.id, headers |-> <<>>,
              blockError |-> [hash |-> l.parentHash, number |-> l.parentNumber + 1,
                              err |-> l.err]]
        ELSE [id |-> result.id, headers |-> l.headers, blockError |-> NoBlockError]

\* HeaderResponse that sends no block error after a failed walk
HeaderResponseNoBlockError(d, result) ==
    LET number == IF result.highestBlockNumber + 1 < result.number
                  THEN result.highestBlockNumber + 1
                  ELSE result.number
        l == AncestorLoop(d, result.highestHash, result.highestBlockNumber,
                          result.highestBlockNumber + 1 - number, <<>>)
    IN  IF l.err # "nil"
        THEN [id |-> result.id, headers |-> <<>>, blockError |-> NoBlockError]
        ELSE [id |-> result.id, headers |-> l.headers, blockError |-> NoBlockError]

\* lines 353-398: case result := <-engine.HeaderRequest(), the response
HeaderResponse(d, result) ==
    LET number == IF result.highestBlockNumber + 1 < result.number
                  THEN result.highestBlockNumber + 1
                  ELSE result.number
        l == AncestorLoop(d, result.highestHash, result.highestBlockNumber,
                          result.highestBlockNumber + 1 - number, <<>>)
    IN  IF l.err # "nil"
        THEN [id |-> result.id, headers |-> <<>>,
              blockError |-> [hash |-> l.parentHash, number |-> l.parentNumber + 1,
                              err |-> l.err]]
        ELSE [id |-> result.id, headers |-> l.headers, blockError |-> NoBlockError]

\* the batches handed to VerifyHeaders: linked, starting above genesis
VerifyBatches ==
    {b \in {<<>>} \cup Chains :
        Len(b) <= MaxVerify /\ (b # <<>> => ParentHash(b[1]) = Genesis)}

\* the errors a result event may carry
VerifyErrors == {"ErrUnknownAncestor", "ErrInvalidSeal"}

RequestIds == {1, 2}

\* a chain of two headers above genesis
StoredChain ==
    CHOOSE c \in Chains :
        /\ Len(c) = 2 /\ ParentHash(c[1]) = Genesis
        /\ \A i \in 1 .. 2 : Difficulty(c[i]) = 1

\* a header that is not of StoredChain
UnknownHeader == CHOOSE h \in Hashes : ParentHash(h) = Genesis /\ h # StoredChain[1]

\* the ancestor requests the engine may make: from genesis, from a header of
\* StoredChain or from UnknownHeader, for up to one header more than there are
HeaderRequests ==
    {[id |-> id, highestHash |-> h, highestBlockNumber |-> Number(h), number |-> n] :
        id \in RequestIds,
        h \in {Genesis, StoredChain[1], StoredChain[2], UnknownHeader},
        n \in 0 .. Len(StoredChain) + 1}

\* VerifyHeaders(db, headers, engine, checkFreq) up to the select of
\* verifyHeaders: the bitmap, the return on an empty batch, the request
VerifyHeaders ==
    /\ verify.pc = "idle"
    /\ \E headers \in VerifyBatches, checkFreq \in 0 .. MaxCheckFreq :
        \E s \in {Seals(Len(headers), checkFreq)} :
            \E err \in {IF s.panic THEN "panic"
                         ELSE IF Len(headers) = 0 THEN "nil" ELSE "none"} :
                /\ verify' = [pc |-> IF err = "none" THEN "waiting" ELSE "returned",
                              headers |-> headers, seals |-> s.seals,
                              toVerify |-> Len(headers), reqResponses |-> {},
                              err |-> err]
                /\ engine' = IF err = "none"
                             THEN [engine EXCEPT !.headerVerification =
                                      [headers |-> headers, seal |-> s.seals]]
                             ELSE engine
                /\ hist' = [NoHist EXCEPT !.checkFreq = checkFreq,
                                          !.requestsSent = IF err = "none" THEN 1 ELSE 0]
    /\ UNCHANGED <<db, pre, call, ret, pc, ctx, finish, multi>>

\* the engine reports on a header of the last request it got, for the first
\* time or again; it may do so after verifyHeaders has returned
EngineResult ==
    /\ engine.verifyResults = <<>>
    /\ \E i \in 1 .. Len(engine.headerVerification.headers),
          err \in {"nil"} \cup VerifyErrors :
        engine' = [engine EXCEPT !.verifyResults =
                      Append(@, [hash |-> engine.headerVerification.headers[i],
                                 err |-> err])]
    /\ UNCHANGED <<db, pre, call, ret, pc, verify, hist, ctx, finish, multi>>

\* lines 339-352: verifyHeaders receives a result event
ReceiveResult ==
    /\ verify.pc = "waiting"
    /\ engine.verifyResults # <<>>
    /\ \E result \in {Head(engine.verifyResults)} :
        /\ verify' = VerifyResult(verify, result)
        /\ engine' = [engine EXCEPT !.verifyResults = Tail(@)]
        /\ hist' = [hist EXCEPT
                        !.okHashes = IF result.err = "nil" THEN @ \cup {result.hash} ELSE @,
                        !.duplicate = @ \/ (result.err = "nil" /\ result.hash \in hist.okHashes),
                        !.last = [kind |-> "result", result |-> result]]
    /\ UNCHANGED <<db, pre, call, ret, pc, ctx, finish, multi>>

\* lines 353-398: verifyHeaders receives an ancestor request and sends the
\* response, which the engine takes off engine.HeaderResponse(); the engine
\* asks for ancestors before it reports on the headers
ReceiveHeaderRequest ==
    /\ verify.pc = "waiting"
    /\ hist.last.kind # "result"
    /\ \E result \in HeaderRequests :
        hist' = [hist EXCEPT !.last = [kind |-> "request", request |-> result,
                                       response |-> HeaderResponse(db, result)]]
    /\ UNCHANGED <<db, pre, call, ret, pc, verify, engine, ctx, finish, multi>>

\* the caller takes the returned error and is ready for its next batch
VerifyReturned ==
    /\ verify.pc = "returned"
    /\ verify' = NoVerify
    /\ hist' = NoHist
    /\ UNCHANGED <<db, pre, call, ret, pc, engine, ctx, finish, multi>>

\* the store the verification reads ancestors from: genesis and StoredChain,
\* as InsertHeaderChain has stored it
VerifyStore == InsertHeaderChainResult(GenesisDb, StoredChain, FALSE).db

InitVerify ==
    /\ db = VerifyStore
    /\ pre = db
    /\ call = NoCall
    /\ ret = NoRet
    /\ pc = "idle"
    /\ verify = NoVerify
    /\ engine = NoEngine
    /\ hist = NoHist
    /\ ctx = "live"
    /\ finish = NoFinish
    /\ multi = NoMulti

NextVerify ==
    \/ VerifyHeaders
    \/ EngineResult
    \/ ReceiveResult
    \/ ReceiveHeaderRequest
    \/ VerifyReturned

SpecVerify == InitVerify /\ [][NextVerify]_vars

\* the coordinator's context is cancelled; verifyHeaders is not handed the
\* context and its select has no case for it
CancelContext ==
    /\ ctx = "live"
    /\ ctx' = "cancelled"
    /\ UNCHANGED <<db, pre, call, ret, pc, verify, engine, hist, finish, multi>>

NextCancel == NextVerify \/ CancelContext

\* verifyHeaders receives a result that is ready for it and its caller goes
\* on once it has returned; the engine and the coordinator owe nothing
FairVerify == WF_vars(ReceiveResult) /\ WF_vars(VerifyReturned)

SpecCancel == InitVerify /\ [][NextCancel]_vars /\ FairVerify

----------------------------------------------------------------------------
(* FinishForward and NotifyNewHeaders *)

MaxNotified == 6        \* headers the notifier is handed over all runs

\* rawdb.ReadHeaderByNumber(db, number): the canonical header at number
ReadHeaderByNumber(d, number) ==
    LET hash == ReadCanonicalHash(d, number)
    IN  IF hash = ZeroHash THEN Nil ELSE ReadHeader(d, hash, number)

\* lines 353-359: for i := from; i <= to; i++ with notifier.OnNewHeader(header)
RECURSIVE NotifyLoop(_, _, _, _)
NotifyLoop(d, i, to, delivered) ==
    IF i > to THEN [delivered |-> delivered, err |-> "nil", number |-> 0]
    ELSE LET header == ReadHeaderByNumber(d, i)
         IN  IF header = Nil
             THEN [delivered |-> delivered,
                   err |-> "could not find canonical header for number", number |-> i]
             ELSE NotifyLoop(d, i + 1, to, Append(delivered, header))

\* NotifyNewHeaders that starts the walk one number above from
NotifyNewHeadersAboveFrom(d, from, to, notifier) ==
    IF ~notifier THEN [delivered |-> <<>>, err |-> "nil", number |-> 0]
    ELSE NotifyLoop(d, from + 1, to, <<>>)

\* lines 348-363: notifier is FALSE for a nil notifier
NotifyNewHeaders(d, from, to, notifier) ==
    IF ~notifier THEN [delivered |-> <<>>, err |-> "nil", number |-> 0]
    ELSE NotifyLoop(d, from, to, <<>>)

\* FinishForwardRun that records the progress whatever NotifyNewHeaders returns
FinishForwardRunIgnoresErr(f, d, notifier, fail) ==
    IF fail = "ExecutionAt"
    THEN [f EXCEPT !.run = [notifier |-> notifier, fail |-> fail,
                            from |-> f.blockNumber + 1, to |-> f.executionAt,
                            delivered |-> <<>>, err |-> "ExecutionAt error",
                            number |-> 0]]
    ELSE LET n == NotifyNewHeaders(d, f.blockNumber + 1, f.executionAt, notifier)
             done == fail # "DoneAndUpdate"
         IN  [blockNumber |-> IF done THEN f.executionAt ELSE f.blockNumber,
              executionAt |-> f.executionAt,
              notified |-> f.notified \o n.delivered,
              run |-> [notifier |-> notifier, fail |-> fail,
                       from |-> f.blockNumber + 1, to |-> f.executionAt,
                       delivered |-> n.delivered,
                       err |-> IF n.err # "nil" THEN n.err
                               ELSE IF done THEN "nil" ELSE "DoneAndUpdate error",
                       number |-> n.number]]

\* lines 327-342: one run of FinishForward; fail names the stage-progress
\* access that returns an error, if one does
FinishForwardRun(f, d, notifier, fail) ==
    IF fail = "ExecutionAt"
    THEN [f EXCEPT !.run = [notifier |-> notifier, fail |-> fail,
                            from |-> f.blockNumber + 1, to |-> f.executionAt,
                            delivered |-> <<>>, err |-> "ExecutionAt error",
                            number |-> 0]]
    ELSE LET n == NotifyNewHeaders(d, f.blockNumber + 1, f.executionAt, notifier)
             done == n.err = "nil" /\ fail # "DoneAndUpdate"
         IN  [blockNumber |-> IF done THEN f.executionAt ELSE f.blockNumber,
              executionAt |-> f.executionAt,
              notified |-> f.notified \o n.delivered,
              run |-> [notifier |-> notifier, fail |-> fail,
                       from |-> f.blockNumber + 1, to |-> f.executionAt,
                       delivered |-> n.delivered,
                       err |-> IF n.err # "nil" THEN n.err
                               ELSE IF done THEN "nil" ELSE "DoneAndUpdate error",
                       number |-> n.number]]

\* FinishForward(s, db, notifier): s.ExecutionAt, NotifyNewHeaders and
\* s.DoneAndUpdate; the notifications are out when the run returns
FinishForward ==
    /\ \E notifier \in BOOLEAN, fail \in {"none", "ExecutionAt", "DoneAndUpdate"} :
        \E f \in {FinishForwardRun(finish, db, notifier, fail)} :
            /\ Len(f.notified) <= MaxNotified
            /\ finish' = f
    /\ UNCHANGED <<db, pre, call, ret, pc, verify, engine, hist, ctx, multi>>

\* the execution stage records new progress
ExecutionAdvances ==
    /\ \E n \in finish.executionAt + 1 .. MaxNumber :
        finish' = [finish EXCEPT !.executionAt = n]
    /\ UNCHANGED <<db, pre, call, ret, pc, verify, engine, hist, ctx, multi>>

\* the linked chains of difficulty 1 that start above genesis
LightChains ==
    {c \in Chains : ParentHash(c[1]) = Genesis /\ \A i \in 1 .. Len(c) : Difficulty(c[i]) = 1}

\* the stores the finish stage runs over: genesis alone or with a canonical
\* chain that InsertHeaderChain has stored
FinishStores ==
    {GenesisDb} \cup {InsertHeaderChainResult(GenesisDb, c, FALSE).db : c \in LightChains}

InitFinish ==
    /\ db \in FinishStores
    /\ pre = db
    /\ call = NoCall
    /\ ret = NoRet
    /\ pc = "idle"
    /\ verify = NoVerify
    /\ engine = NoEngine
    /\ hist = NoHist
    /\ ctx = "live"
    /\ finish = NoFinish
    /\ multi = NoMulti

NextFinish == FinishForward \/ ExecutionAdvances

SpecFinish == InitFinish /\ [][NextFinish]_vars

----------------------------------------------------------------------------
(* newMultiIterator *)

MaxBlock == 3           \* highest block number an input iterator yields
MaxYield == 5           \* calls of one multi-iterator that are followed

\* the block numbers of S in the merge direction: ascending when smaller
RECURSIVE Ordered(_, _)
Ordered(S, smaller) ==
    IF S = {} THEN <<>>
    ELSE LET m == CHOOSE x \in S : \A y \in S : IF smaller THEN x <= y ELSE x >= y
         IN  <<m>> \o Ordered(S \ {m}, smaller)

\* one call of an input iterator over the numbers it has left: the next
\* number, or (0, true) at the end
Pull(rest) ==
    IF rest = <<>> THEN [blockNum |-> 0, end |-> TRUE, rest |-> <<>>]
    ELSE [blockNum |-> Head(rest), end |-> FALSE, rest |-> Tail(rest)]

\* lines 424-432: newMultiIterator pulls the first number of each input
MultiIteratorInit(smaller, from, to) ==
    LET f == Pull(from)
        t == Pull(to)
    IN  [pc |-> "ready", smaller |-> smaller, from |-> from, to |-> to,
         fromRest |-> f.rest, toRest |-> t.rest,
         nextFrom |-> f.blockNum, fromEnd |-> f.end,
         nextTo |-> t.blockNum, toEnd |-> t.end, out |-> <<>>, eof |-> FALSE]

\* lines 434-468: one call of the returned closure on its captured state m
MultiIteratorNext(m) ==
    IF m.fromEnd /\ m.toEnd THEN [m EXCEPT !.eof = TRUE]
    ELSE LET b0 == IF ~m.fromEnd THEN m.nextFrom ELSE 0
             blockNum == IF ~m.toEnd
                         THEN IF m.smaller
                              THEN IF m.nextTo < b0 THEN m.nextTo ELSE b0
                              ELSE IF m.nextTo > b0 THEN m.nextTo ELSE b0
                         ELSE b0
             f == IF ~m.fromEnd /\ blockNum = m.nextFrom
                  THEN Pull(m.fromRest)
                  ELSE [blockNum |-> m.nextFrom, end |-> m.fromEnd, rest |-> m.fromRest]
             t == IF ~m.toEnd /\ blockNum = m.nextTo
                  THEN Pull(m.toRest)
                  ELSE [blockNum |-> m.nextTo, end |-> m.toEnd, rest |-> m.toRest]
         IN  [m EXCEPT !.fromRest = f.rest, !.nextFrom = f.blockNum, !.fromEnd = f.end,
                       !.toRest = t.rest, !.nextTo = t.blockNum, !.toEnd = t.end,
                       !.out = Append(@, blockNum)]

\* newMultiIterator(smaller, fromIter, toIter) over two inputs that are
\* strictly ordered in the merge direction
NewMultiIterator ==
    /\ multi.pc = "none"
    /\ \E smaller \in BOOLEAN, F \in SUBSET (0 .. MaxBlock), T \in SUBSET (0 .. MaxBlock) :
        multi' = MultiIteratorInit(smaller, Ordered(F, smaller), Ordered(T, smaller))
    /\ UNCHANGED <<db, pre, call, ret, pc, verify, engine, hist, ctx, finish>>

\* the caller asks the multi-iterator for the next block number
MultiIter ==
    /\ multi.pc = "ready"
    /\ ~multi.eof
    /\ Len(multi.out) < MaxYield
    /\ multi' = MultiIteratorNext(multi)
    /\ UNCHANGED <<db, pre, call, ret, pc, verify, engine, hist, ctx, finish>>

\* the search is over and the multi-iterator is dropped
MultiDropped ==
    /\ multi.pc = "ready"
    /\ multi.eof \/ Len(multi.out) = MaxYield
    /\ multi' = NoMulti
    /\ UNCHANGED <<db, pre, call, ret, pc, verify, engine, hist, ctx, finish>>

NextMulti == NewMultiIterator \/ MultiIter \/ MultiDropped

SpecMulti == Init /\ [][NextMulti]_vars

----------------------------------------------------------------------------
(* Properties *)

\* the stored total difficulty of header h
TdOf(d, h) == d.td[<<Number(h), h>>]

\* the sum of the difficulties of a batch
RECURSIVE SumDifficulty(_)
SumDifficulty(headers) ==
    IF headers = <<>> THEN 0
    ELSE Difficulty(Head(headers)) + SumDifficulty(Tail(headers))

\* a call has returned without error
Succeeded == pc = "returned" /\ ret.err = "nil"

\* a call has returned without error after working on a non-empty remainder
Inserted == Succeeded /\ ret.locals.headers # <<>>

\* the batch the call worked on, after the canonical prefix was cut off
Remainder == ret.locals.headers

LastOfRemainder == Remainder[Len(Remainder)]

\* extern_td and local_td of the call, read from the store before the call
ClaimExternTd == TdOf(pre, ParentHash(Remainder[1])) + SumDifficulty(Remainder)

ClaimLocalTd == TdOf(pre, pre.headHash)

\* C1: for every canonical entry (n, h) the header record (n, h) exists and,
\* when n > 0, canonical(n-1) is that header's parent hash.
C1_CanonicalContiguity ==
    \A n \in DOMAIN db.canonical :
        /\ <<n, db.canonical[n]>> \in db.headers
        /\ n > 0 => /\ (n - 1) \in DOMAIN db.canonical
                    /\ db.canonical[n - 1] = ParentHash(db.canonical[n])

\* a deep-fork commit has rewritten a canonical pointer below the batch
C1_Witness ==
    /\ Inserted /\ ret.newCanonical /\ ret.locals.deepFork
    /\ \E n \in DOMAIN pre.canonical :
          /\ n < Number(Remainder[1]) - 1
          /\ n \in DOMAIN db.canonical
          /\ db.canonical[n] # pre.canonical[n]

\* C2: the block numbers that have a canonical pointer are exactly
\* 0..head.number.
C2_CanonicalDomain == DOMAIN db.canonical = 0 .. Number(db.headHash)

\* a reorganization onto a chain shorter than the old one
C2_Witness ==
    /\ Inserted /\ ret.reorg
    /\ Number(db.headHash) < Number(pre.headHash)

\* C3: the total difficulty stored for the head is at least the total
\* difficulty stored for every header of the store.
C3_HeadMaximality ==
    \A k \in DOMAIN db.td : TdOf(db, db.headHash) >= db.td[k]

\* a batch was stored beside the canonical chain and the head stayed
C3_Witness ==
    /\ Inserted /\ ~ret.newCanonical
    /\ db.headers # pre.headers
    /\ db.headHash = pre.headHash

\* C4: every stored non-genesis header has a stored TD equal to the stored TD
\* of its parent plus its own difficulty.
C4_TdAccumulation ==
    \A k \in db.headers :
        k[2] # Genesis =>
            /\ k \in DOMAIN db.td
            /\ <<k[1] - 1, ParentHash(k[2])>> \in DOMAIN db.td
            /\ db.td[k] = db.td[<<k[1] - 1, ParentHash(k[2])>>] + Difficulty(k[2])

\* a batch that was not made canonical, in which a header was written after
\* an earlier header of the batch was skipped
C4_Witness ==
    /\ Inserted /\ ~ret.newCanonical
    /\ ret.locals.ignored > 0
    /\ db.headers # pre.headers

\* C5: for every stored non-genesis header the header at
\* (number - 1, parent hash) is stored too.
C5_Linkage ==
    \A k \in db.headers :
        k[2] # Genesis => <<k[1] - 1, ParentHash(k[2])>> \in db.headers

\* headers were written after a canonical prefix of the input was skipped
C5_Witness ==
    /\ Inserted
    /\ Len(Remainder) < Len(call.headers)
    /\ db.headers # pre.headers

\* C6: the head marker is resolvable: hash-to-number maps the head hash to the
\* head's number, the header and TD records of the head exist, and the
\* canonical pointer at the head's number is the head hash.
C6_HeadResolvable ==
    /\ db.headHash \in DOMAIN db.headerNumber
    /\ db.headerNumber[db.headHash] = Number(db.headHash)
    /\ <<Number(db.headHash), db.headHash>> \in db.headers
    /\ <<Number(db.headHash), db.headHash>> \in DOMAIN db.td
    /\ ReadCanonicalHash(db, Number(db.headHash)) = db.headHash

\* the head moved to a header that was not stored before the call
C6_Witness ==
    /\ Inserted /\ ret.newCanonical
    /\ db.headHash # pre.headHash
    /\ <<Number(db.headHash), db.headHash>> \notin pre.headers

\* C7: when extern_td differs from local_td, new_canonical is true exactly
\* when extern_td > local_td, and then the head is the last header.
C7_HeavierChainWins ==
    (Inserted /\ ClaimExternTd # ClaimLocalTd) =>
        /\ ret.newCanonical <=> (ClaimExternTd > ClaimLocalTd)
        /\ ret.newCanonical => db.headHash = LastOfRemainder

\* a heavier batch of several headers that forks off below the head
C7_Witness ==
    /\ Inserted /\ ClaimExternTd > ClaimLocalTd
    /\ Len(Remainder) > 1
    /\ Number(Remainder[1]) <= Number(pre.headHash)
    /\ db.headHash = LastOfRemainder

\* C8: a call that ends with new_canonical = false leaves head, canonical
\* pointers, hash-to-number and TD(head) unchanged, returns {false, false, 0},
\* and only adds header and TD records.
C8_NonCanonicalFrame ==
    (pc = "returned" /\ ~ret.newCanonical) =>
        /\ db.headHash = pre.headHash
        /\ db.canonical = pre.canonical
        /\ db.headerNumber = pre.headerNumber
        /\ TdOf(db, db.headHash) = TdOf(pre, pre.headHash)
        /\ ~ret.reorg /\ ret.forkBlockNumber = 0
        /\ pre.headers \subseteq db.headers
        /\ \A k \in DOMAIN pre.td : k \in DOMAIN db.td /\ db.td[k] = pre.td[k]

\* a lighter batch whose parent is not on the canonical chain was stored
C8_Witness ==
    /\ Inserted /\ ~ret.newCanonical
    /\ ClaimExternTd < ClaimLocalTd
    /\ ParentHash(Remainder[1]) # ReadCanonicalHash(pre, Number(Remainder[1]) - 1)
    /\ db.headers # pre.headers

\* the tie of C9: equal total difficulty, different numbers
TieAtDifferentHeight ==
    /\ Inserted /\ ClaimExternTd = ClaimLocalTd
    /\ Number(LastOfRemainder) # Number(pre.headHash)

\* C9 as stated: a tying batch becomes canonical exactly when it ends above
\* the head.
C9_TieLongerWins ==
    TieAtDifferentHeight =>
        (ret.newCanonical <=> Number(LastOfRemainder) > Number(pre.headHash))

\* C9 amended: a tying batch becomes canonical exactly when it ends below the
\* head; the head then moves to its last header, otherwise the head stays.
C9_TieShorterWins ==
    TieAtDifferentHeight =>
        /\ ret.newCanonical <=> Number(LastOfRemainder) < Number(pre.headHash)
        /\ db.headHash = IF Number(LastOfRemainder) < Number(pre.headHash)
                         THEN LastOfRemainder ELSE pre.headHash

\* a tying batch that ends below the head was made canonical
C9_Witness ==
    /\ TieAtDifferentHeight
    /\ Number(LastOfRemainder) < Number(pre.headHash)
    /\ db.headHash = LastOfRemainder

\* the tie of C10: equal total difficulty, equal numbers
TieAtEqualHeight ==
    /\ Inserted /\ ClaimExternTd = ClaimLocalTd
    /\ Number(LastOfRemainder) = Number(pre.headHash)

\* C10: at equal total difficulty and equal number the coin alone decides:
\* new_canonical is the coin's outcome, the head is the last header on heads
\* and the old head on tails, and the committed store satisfies the store
\* invariants in both cases.
C10_CoinDecides ==
    TieAtEqualHeight =>
        /\ ret.locals.coinFlipped
        /\ ret.newCanonical = call.coin
        /\ db.headHash = IF call.coin THEN LastOfRemainder ELSE pre.headHash
        /\ C1_CanonicalContiguity /\ C2_CanonicalDomain /\ C3_HeadMaximality
        /\ C4_TdAccumulation /\ C5_Linkage /\ C6_HeadResolvable

\* the coin made a tying batch of equal height canonical
C10_Witness ==
    /\ TieAtEqualHeight /\ call.coin
    /\ db.headHash = LastOfRemainder
    /\ db.headHash # pre.headHash

\* the coin left the head in place for a tying batch of equal height
C10_WitnessTails ==
    /\ TieAtEqualHeight /\ ~call.coin
    /\ db.headHash = pre.headHash
    /\ db.headers # pre.headers

\* every header of the input is the canonical hash at its number before the call
AllCanonical ==
    \A i \in 1 .. Len(call.headers) :
        /\ Number(call.headers[i]) \in DOMAIN pre.canonical
        /\ pre.canonical[Number(call.headers[i])] = call.headers[i]

\* C11: a batch made only of already canonical headers (the empty batch
\* included) returns {false, false, 0} without error and leaves the store
\* unchanged.
C11_CanonicalBatchNoOp ==
    (pc = "returned" /\ call.failedAt = "none" /\ AllCanonical) =>
        /\ ret.err = "nil"
        /\ ~ret.newCanonical /\ ~ret.reorg /\ ret.forkBlockNumber = 0
        /\ db = pre

\* some header of the input is in the Bad-Hash Set
SomeBadHash == \E i \in 1 .. Len(call.headers) : call.headers[i] \in BadHashes

\* C12: a batch that holds a header of the Bad-Hash Set, at any index and
\* canonical or not, fails with BlacklistedHash and commits nothing.
C12_BadHashRejected ==
    (pc = "returned" /\ call.failedAt = "none" /\ SomeBadHash) =>
        /\ ret.err = "ErrBlacklistedHash"
        /\ db = pre

\* the number of leading headers of the input, from index i + 1 on, that were
\* canonical in the store before the call
RECURSIVE CanonicalPrefix(_)
CanonicalPrefix(i) ==
    IF /\ i < Len(call.headers)
       /\ Number(call.headers[i + 1]) \in DOMAIN pre.canonical
       /\ pre.canonical[Number(call.headers[i + 1])] = call.headers[i + 1]
    THEN CanonicalPrefix(i + 1)
    ELSE i

\* the input without its already-canonical prefix
RemainingBatch == SubSeq(call.headers, CanonicalPrefix(0) + 1, Len(call.headers))

\* the call got past the canonical prefix with a non-empty remainder: no
\* store access failed and no header of the prefix is in the Bad-Hash Set
PrefixRemoved ==
    /\ pc = "returned"
    /\ call.failedAt = "none"
    /\ \A i \in 1 .. CanonicalPrefix(0) : call.headers[i] \notin BadHashes
    /\ RemainingBatch # <<>>

\* the parent of the first remaining header is a header of the store
FirstParentStored ==
    <<Number(RemainingBatch[1]) - 1, ParentHash(RemainingBatch[1])>> \in pre.headers

\* some remaining header does not name the header before it as its parent
LinkBroken ==
    /\ \E i \in 2 .. Len(call.headers) : ParentHash(call.headers[i]) # call.headers[i - 1]
    /\ \E i \in 2 .. Len(RemainingBatch) :
           ParentHash(RemainingBatch[i]) # RemainingBatch[i - 1]

\* C13: when the header at (first.number - 1, first.parent_hash) of the
\* remaining batch is not in the store, the call fails with the
\* unknown-parent error and the store is as it was before the call.
C13_UnknownParent ==
    (PrefixRemoved /\ ~FirstParentStored) =>
        /\ ret.err = "unknown parent"
        /\ db = pre

\* an unknown parent behind a canonical prefix, at a number the store has
C13_Witness ==
    /\ PrefixRemoved /\ ~FirstParentStored
    /\ CanonicalPrefix(0) > 0
    /\ Number(RemainingBatch[1]) - 1 \in DOMAIN pre.canonical
    /\ ret.err = "unknown parent"

\* C14: when a header of the remaining batch has a parent_hash that is not
\* the hash of the header before it, the call fails with the broken-chain
\* error, whatever the total difficulty of the batch, and the store is as it
\* was before the call.
C14_BrokenChain ==
    (LinkBroken /\ PrefixRemoved /\ FirstParentStored) =>
        /\ ret.err = "broken chain"
        /\ db = pre

\* a broken batch of consecutive numbers that is heavier than the local chain
C14_Witness ==
    /\ PrefixRemoved /\ FirstParentStored /\ LinkBroken
    /\ Number(RemainingBatch[2]) = Number(RemainingBatch[1]) + 1
    /\ TdOf(pre, ParentHash(RemainingBatch[1])) + SumDifficulty(RemainingBatch)
           > TdOf(pre, pre.headHash)
    /\ ret.err = "broken chain"

\* C15: whenever the call returns an error, at whatever step, the store is
\* identical to the store before the call.
C15_ErrorLeavesStore ==
    (pc = "returned" /\ ret.err # "nil") => db = pre

\* a failed commit of a batch that holds the writes of a new header
C15_Witness ==
    /\ pc = "returned"
    /\ call.failedAt = "commit"
    /\ call.headers # <<>>
    /\ call.headers[1] \notin DOMAIN pre.headerNumber
    /\ ret.err = "commit error"

\* a store access fails after the write loop has written to the batch
C15_WitnessWalk ==
    /\ pc = "returned"
    /\ call.failedAt = "write"
    /\ ret.locals = NoLocals
    /\ pre.headHash \notin {call.headers[i] : i \in 1 .. Len(call.headers)}
    /\ ret.err = "store error"

\* a store access of the write loop fails at the second header
C15_WitnessLoop ==
    /\ pc = "returned"
    /\ call.failedAt = "write"
    /\ Len(call.headers) = 2 /\ call.headers[1] = ParentHash(call.headers[2])
    /\ call.headers[1] \notin DOMAIN pre.headerNumber
    /\ ret.err = "store error"

\* the call never reads a total difficulty or a head that the store lacks
NoPanic == pc = "returned" => ret.err # "panic"

\* the headers H1 = (parent genesis, difficulty 2) and H2 = (parent H1,
\* difficulty 2)
ScenarioH1 == CHOOSE h \in Hashes : ParentHash(h) = Genesis /\ Difficulty(h) = 2
ScenarioH2 == CHOOSE h \in Hashes : ParentHash(h) = ScenarioH1 /\ Difficulty(h) = 2

\* [H1, H2] was inserted into the store that holds genesis alone
ScenarioOne ==
    /\ pc = "returned"
    /\ call.failedAt = "none"
    /\ pre = GenesisDb
    /\ call.headers = <<ScenarioH1, ScenarioH2>>

\* C16 as stated: over the genesis-only store with genesis difficulty 1,
\* inserting [H1, H2] returns {new_canonical: true, reorg: false,
\* fork_block: 2}, with head = H2 and TD(H2) = 5 afterwards.
C16_ScenarioForkBlockTwo ==
    (ScenarioOne /\ GenesisDifficulty = 1) =>
        /\ ret.err = "nil"
        /\ ret.newCanonical /\ ~ret.reorg /\ ret.forkBlockNumber = 2
        /\ db.headHash = ScenarioH2
        /\ TdOf(db, ScenarioH2) = 5

\* C16 amended: the same call returns {new_canonical: true, reorg: false,
\* fork_block: 0}, with head = H2 and TD(H2) = 5 afterwards.
C16_ScenarioForkBlockZero ==
    (ScenarioOne /\ GenesisDifficulty = 1) =>
        /\ ret.err = "nil"
        /\ ret.newCanonical /\ ~ret.reorg /\ ret.forkBlockNumber = 0
        /\ db.headHash = ScenarioH2
        /\ TdOf(db, ScenarioH2) = 5

C16_Witness ==
    /\ ScenarioOne /\ GenesisDifficulty = 1
    /\ ret.err = "nil" /\ db.headHash = ScenarioH2

\* the batch of the call forks off the canonical chain at its first header,
\* at or below the head, and is heavier than the local chain
ShallowHeavierFork ==
    /\ pc = "returned"
    /\ call.failedAt = "none"
    /\ call.headers # <<>>
    /\ \A i \in 2 .. Len(call.headers) : ParentHash(call.headers[i]) = call.headers[i - 1]
    /\ Number(call.headers[1]) >= 1
    /\ Number(call.headers[1]) <= Number(pre.headHash)
    /\ pre.canonical[Number(call.headers[1]) - 1] = ParentHash(call.headers[1])
    /\ pre.canonical[Number(call.headers[1])] # call.headers[1]
    /\ TdOf(pre, ParentHash(call.headers[1])) + SumDifficulty(call.headers)
           > TdOf(pre, pre.headHash)

\* C17: a heavier batch that forks off the canonical chain at its first header
\* returns {true, true, first.number - 1}; afterwards the head is its last
\* header, its headers are canonical at their numbers, no number from
\* last.number + 1 to the old head's number has a canonical pointer, and the
\* replaced headers are still stored but no longer canonical.
C17_ShallowReorg ==
    ShallowHeavierFork =>
        LET first == call.headers[1]
            last == call.headers[Len(call.headers)]
        IN  /\ ret.err = "nil"
            /\ ret.newCanonical /\ ret.reorg
            /\ ret.forkBlockNumber = Number(first) - 1
            /\ db.headHash = last
            /\ \A i \in 1 .. Len(call.headers) :
                   /\ Number(call.headers[i]) \in DOMAIN db.canonical
                   /\ db.canonical[Number(call.headers[i])] = call.headers[i]
            /\ \A n \in Number(last) + 1 .. Number(pre.headHash) :
                   n \notin DOMAIN db.canonical
            /\ \A n \in Number(first) .. Number(pre.headHash) :
                   /\ <<n, pre.canonical[n]>> \in db.headers
                   /\ n \in DOMAIN db.canonical => db.canonical[n] # pre.canonical[n]

\* a fork at number 1 that ends below the old head
C17_Witness ==
    /\ ShallowHeavierFork
    /\ Number(call.headers[1]) = 1
    /\ Len(call.headers) = 2
    /\ Number(call.headers[2]) < Number(pre.headHash)
    /\ ret.reorg

\* a call of VerifyHeaders has been made
VerifyCalled == verify.pc # "idle"

\* the result event that verifyHeaders receives in this step, if it does
ResultReceived ==
    /\ verify.pc = "waiting"
    /\ engine.verifyResults # <<>>
    /\ engine.verifyResults' = Tail(engine.verifyResults)

\* C18 as stated: for every batch length and every check_freq >= 0
\* VerifyHeaders does not fail and builds a bitmap of the batch's length in
\* which index j is true exactly when check_freq > 0 and j is a multiple of
\* check_freq or the last index.
C18_SealBitmap ==
    VerifyCalled =>
        /\ verify.err # "panic"
        /\ DOMAIN verify.seals = 0 .. Len(verify.headers) - 1
        /\ \A j \in DOMAIN verify.seals :
               verify.seals[j] <=>
                   /\ hist.checkFreq > 0
                   /\ j % hist.checkFreq = 0 \/ j = Len(verify.headers) - 1

\* C19: on a non-empty batch verifyHeaders has sent exactly one
\* VerifyHeaderRequest, and it has returned success exactly when error-free
\* results for len(headers) distinct hashes have been received; a result that
\* repeats a recorded hash neither advances the count nor ends the loop.
C19_OneRequestDistinctHashes ==
    /\ [](VerifyCalled /\ verify.headers # <<>> =>
             /\ hist.requestsSent = 1
             /\ (verify.pc = "returned" /\ verify.err = "nil")
                    <=> Cardinality(hist.okHashes) = Len(verify.headers))
    /\ [][(/\ ResultReceived
            /\ Head(engine.verifyResults).err = "nil"
            /\ Head(engine.verifyResults).hash \in hist.okHashes)
              => /\ verify'.pc = "waiting"
                 /\ hist'.okHashes = hist.okHashes]_vars

\* a verification of two headers that succeeded although a hash was repeated
C19_Witness ==
    /\ verify.pc = "returned" /\ verify.err = "nil"
    /\ Len(verify.headers) = 2
    /\ hist.duplicate

\* C20: a result event that carries an error ends the call with exactly that
\* error, however many headers were reported without error before, and the
\* call consumes no result or ancestor request after it.
C20_ErrorEndsVerification ==
    /\ [][(ResultReceived /\ Head(engine.verifyResults).err # "nil")
              => /\ verify'.pc = "returned"
                 /\ verify'.err = Head(engine.verifyResults).err]_vars
    /\ [][verify.pc = "returned"
              => \/ verify'.pc = "idle"
                 \/ /\ hist' = hist
                    /\ verify' = verify
                    /\ engine.verifyResults # <<>> => engine' = engine]_vars
    /\ [](verify.pc = "returned" /\ verify.err \in VerifyErrors =>
             hist.last = [kind |-> "result",
                          result |-> [hash |-> hist.last.result.hash,
                                      err |-> verify.err]])

\* an error for a header that follows an error-free result for another one
C20_Witness ==
    /\ verify.pc = "returned" /\ verify.err \in VerifyErrors
    /\ hist.okHashes # {}
    /\ hist.last.kind = "result"
    /\ hist.last.result.hash \notin hist.okHashes

\* an error for a header that was reported without error before
C20_WitnessRepeated ==
    /\ verify.pc = "returned" /\ verify.err \in VerifyErrors
    /\ hist.last.kind = "result"
    /\ hist.last.result.hash \in hist.okHashes

\* C21 as stated: when the context is cancelled while verifyHeaders waits for
\* the engine, the call returns with a cancellation error, also when the
\* engine sends nothing more.
C21_CancelEndsVerification ==
    (ctx = "cancelled" /\ verify.pc = "waiting")
        ~> (verify.pc = "returned" /\ verify.err = "context canceled")

\* the termination alone: a cancelled wait comes to an end
CancelledWaitEnds == (ctx = "cancelled" /\ verify.pc = "waiting") ~> verify.pc # "waiting"

\* FinishForward has run and its NotifyNewHeaders call was made with a
\* registered notifier
Notifying == finish.run.err # "none" /\ finish.run.fail # "ExecutionAt" /\ finish.run.notifier

\* the numbers of the walk whose canonical header the store lacks
MissingNumbers ==
    {n \in finish.run.from .. finish.run.to :
        \/ n \notin DOMAIN db.canonical
        \/ <<n, db.canonical[n]>> \notin db.headers}

\* the canonical hashes at from .. to, in ascending order
CanonicalRange(from, to) ==
    [i \in 1 .. (IF to < from THEN 0 ELSE to - from + 1) |-> db.canonical[from + i - 1]]

\* C22: NotifyNewHeaders(from, to) with a registered notifier and a canonical
\* header at every number of [from, to] hands the notifier the canonical
\* headers at from, from+1, .., to, each once, in that order, and nothing
\* else; with from > to it hands over nothing
C22_NotifyAscendingOnce ==
    (Notifying /\ MissingNumbers = {}) =>
        finish.run.delivered = CanonicalRange(finish.run.from, finish.run.to)

C22_Witness ==
    /\ Notifying /\ MissingNumbers = {}
    /\ finish.run.from = 2 /\ finish.run.to = 3
    /\ Len(finish.run.delivered) = 2

C22_WitnessEmpty ==
    /\ Notifying /\ finish.run.from > finish.run.to
    /\ finish.run.delivered = <<>>

\* C23: over all runs of FinishForward, failed runs and their re-runs
\* included, the notifier is handed no block number twice
C23_NeverResent ==
    \A i, j \in 1 .. Len(finish.notified) :
        i # j => Number(finish.notified[i]) # Number(finish.notified[j])

\* the least number of the walk without a canonical header
FirstMissing == CHOOSE n \in MissingNumbers : \A m \in MissingNumbers : n <= m

\* C30: when the canonical header at some n of [from, to] is missing,
\* NotifyNewHeaders returns the error naming the first such n after handing
\* over exactly the headers at from .. n-1, and FinishForward returns that
\* error with the stage progress where it was
C30_MissingHeaderError ==
    (Notifying /\ MissingNumbers # {}) =>
        /\ finish.run.err = "could not find canonical header for number"
        /\ finish.run.number = FirstMissing
        /\ finish.run.delivered = CanonicalRange(finish.run.from, FirstMissing - 1)
        /\ finish.blockNumber = finish.run.from - 1

C30_Witness ==
    /\ Notifying /\ MissingNumbers # {}
    /\ FirstMissing > finish.run.from
    /\ Len(finish.run.delivered) > 0
    /\ finish.run.fail = "none"

\* the numbers at which the canonical chain before the call and the one after
\* it name the same hash
AgreeNumbers ==
    {n \in DOMAIN pre.canonical \cap DOMAIN db.canonical : pre.canonical[n] = db.canonical[n]}

\* C24: a successful call that returns new_canonical returns as fork_block the
\* largest number at which the canonical chains before and after the call
\* agree
C24_ForkBlockIsLastAgreement ==
    (Succeeded /\ ret.newCanonical) =>
        /\ ret.forkBlockNumber \in AgreeNumbers
        /\ \A n \in AgreeNumbers : n <= ret.forkBlockNumber

C24_Witness ==
    /\ Succeeded /\ ret.newCanonical /\ ret.locals.deepFork
    /\ ret.forkBlockNumber > 0

\* the numbers up to the old head whose canonical pointer the call changed
\* or deleted
RewrittenNumbers ==
    {n \in DOMAIN pre.canonical :
        /\ n <= Number(pre.headHash)
        /\ (n \notin DOMAIN db.canonical \/ db.canonical[n] # pre.canonical[n])}

\* C25: a successful call returns reorg exactly when it changed or deleted
\* canonical(n) for some n up to the number of the old head
C25_ReorgIffRewrite ==
    Succeeded => (ret.reorg <=> RewrittenNumbers # {})

C25_Witness ==
    /\ Succeeded /\ ret.reorg
    /\ \E n \in RewrittenNumbers : n \notin DOMAIN db.canonical

\* C27: no call, whatever its outcome, removes a header record or a TD record
\* or changes the TD of a stored header
C27_RecordsOnlyGrow ==
    pc = "returned" =>
        /\ pre.headers \subseteq db.headers
        /\ DOMAIN pre.td \subseteq DOMAIN db.td
        /\ \A k \in DOMAIN pre.td : db.td[k] = pre.td[k]

C27_Witness ==
    /\ pc = "returned" /\ ret.reorg
    /\ pre.headers # db.headers
    /\ \E h \in pre.headers : h[1] \notin DOMAIN db.canonical

\* the parent of the first remaining header, and its number
BatchParent == ParentHash(RemainingBatch[1])

BatchParentNumber == Number(RemainingBatch[1]) - 1

\* the ancestor of the batch's parent that has number n
ParentAncestorAt(n) == Ancestor(BatchParent, BatchParentNumber - n)

\* a call whose remaining batch starts on a stored header that was not the
\* canonical one at its number
OffCanonicalParent ==
    /\ pc = "returned"
    /\ RemainingBatch # <<>>
    /\ Number(RemainingBatch[1]) >= 1
    /\ FirstParentStored
    /\ (BatchParentNumber \in DOMAIN pre.canonical
            => pre.canonical[BatchParentNumber] # BatchParent)

\* the number of the last header that the old canonical chain and the chain
\* of the batch's parent have in common
CommonAncestorNumber ==
    CHOOSE n \in 0 .. BatchParentNumber :
        /\ n \in DOMAIN pre.canonical /\ pre.canonical[n] = ParentAncestorAt(n)
        /\ \A m \in n + 1 .. BatchParentNumber :
              ~(m \in DOMAIN pre.canonical /\ pre.canonical[m] = ParentAncestorAt(m))

\* C26: a new-canonical batch on a parent that was not canonical makes the
\* parent's ancestors canonical at every number from the common ancestor's
\* number + 1 to first.number - 1 and leaves the pointers at and below the
\* common ancestor as they were, together with the batch's own header, TD,
\* canonical and head writes; a call that fails leaves none of them
C26_DeepForkRewrite ==
    OffCanonicalParent =>
        /\ (ret.err = "nil" /\ ret.newCanonical) =>
              /\ \A n \in 0 .. BatchParentNumber :
                    /\ n \in DOMAIN db.canonical
                    /\ db.canonical[n] = IF n > CommonAncestorNumber
                                            THEN ParentAncestorAt(n)
                                            ELSE pre.canonical[n]
              /\ \A i \in 1 .. Len(RemainingBatch) :
                    LET h == RemainingBatch[i]
                    IN  /\ <<Number(h), h>> \in db.headers
                        /\ <<Number(h), h>> \in DOMAIN db.td
                        /\ db.canonical[Number(h)] = h
              /\ db.headHash = RemainingBatch[Len(RemainingBatch)]
        /\ ret.err # "nil" => db = pre

C26_Witness ==
    /\ OffCanonicalParent /\ ret.err = "nil" /\ ret.newCanonical
    /\ ret.locals.deepFork
    /\ CommonAncestorNumber = 0 /\ BatchParentNumber = 2
    /\ {1, 2} \subseteq DOMAIN pre.canonical
    /\ pre.canonical[1] # db.canonical[1] /\ pre.canonical[2] # db.canonical[2]

C26_WitnessFailed ==
    /\ OffCanonicalParent /\ call.failedAt = "commit"
    /\ BatchParentNumber - CommonAncestorNumber >= 1

\* verifyHeaders has just answered an ancestor request
RequestAnswered == hist.last.kind = "request"

\* the number of headers an ancestor request asks for, at most all there are
\* down to genesis
WantedCount ==
    IF hist.last.request.number < hist.last.request.highestBlockNumber + 1
    THEN hist.last.request.number
    ELSE hist.last.request.highestBlockNumber + 1

\* the headers the request asks for: (highest_number, highest_hash) and its
\* parents, highest first
WantedHeaders == [i \in 1 .. WantedCount |-> Ancestor(hist.last.request.highestHash, i - 1)]

\* every header the request asks for is in the store
WantedStored ==
    \A i \in 1 .. WantedCount :
        <<hist.last.request.highestBlockNumber - (i - 1), WantedHeaders[i]>> \in db.headers

\* C28: an ancestor request whose headers are all stored is answered, before
\* any other event is handled, by one HeaderResponse with the request's id,
\* no block_error and min(number_wanted, highest_number+1) headers: the one at
\* (highest_number, highest_hash) followed by its successive parents
C28_AncestorResponse ==
    /\ [](RequestAnswered /\ WantedStored =>
             /\ hist.last.response.id = hist.last.request.id
             /\ hist.last.response.blockError = NoBlockError
             /\ hist.last.response.headers = WantedHeaders
             /\ \A i \in 1 .. Len(hist.last.response.headers) :
                   Number(hist.last.response.headers[i])
                       = hist.last.request.highestBlockNumber - (i - 1))
    /\ [][hist'.last.kind = "request" /\ hist' # hist =>
             /\ verify.pc = "waiting"
             /\ UNCHANGED <<verify, engine>>]_vars

C28_Witness ==
    /\ RequestAnswered /\ WantedStored
    /\ hist.last.request.number > hist.last.request.highestBlockNumber + 1
    /\ Len(hist.last.response.headers) = 2

C28_WitnessAll ==
    /\ RequestAnswered /\ WantedStored
    /\ hist.last.request.number = Len(StoredChain) + 1
    /\ Len(hist.last.response.headers) = Len(StoredChain) + 1

\* C29: an ancestor request with a header of its walk missing from the store
\* is answered by one HeaderResponse with the request's id, no headers and a
\* block_error of kind UnknownParent, and verifyHeaders goes on waiting
C29_UnknownParentResponse ==
    (RequestAnswered /\ ~WantedStored) =>
        /\ hist.last.response.id = hist.last.request.id
        /\ hist.last.response.headers = <<>>
        /\ hist.last.response.blockError.err = "ErrUnknownParent"
        /\ verify.pc = "waiting"

C29_Witness ==
    /\ RequestAnswered /\ ~WantedStored
    /\ hist.last.request.highestHash = UnknownHeader
    /\ hist.last.request.number = 2
    /\ hist.last.response.blockError.err = "ErrUnknownParent"

\* the block numbers of either input, each once, in the merge direction
Merged ==
    Ordered({multi.from[i] : i \in 1 .. Len(multi.from)}
                \cup {multi.to[i] : i \in 1 .. Len(multi.to)}, multi.smaller)

\* C31: the multi-iterator over two inputs that are strictly ordered in the
\* merge direction yields the block numbers of either input, each once, in
\* that order, and reports end-of-stream after the last of them, whichever
\* input ends first and in both directions
C31_MergeYieldsUnion ==
    multi.pc = "ready" =>
        /\ Len(multi.out) <= Len(Merged)
        /\ multi.out = SubSeq(Merged, 1, Len(multi.out))
        /\ multi.eof => multi.out = Merged

\* the same for the descending direction alone
MergeDescending == multi.smaller \/ C31_MergeYieldsUnion

\* the same for the ascending direction while the from input has numbers left
MergeAscendingFromLeft == (multi.smaller /\ ~multi.fromEnd) => C31_MergeYieldsUnion

\* a descending merge of inputs that share a number was read to its end
MergedToTheEnd ==
    /\ multi.pc = "ready" /\ multi.eof
    /\ Len(multi.from) >= 2 /\ Len(multi.to) >= 2
    /\ \E i \in 1 .. Len(multi.from), j \in 1 .. Len(multi.to) : multi.from[i] = multi.to[j]

\* C32: when verifyHeaders returns success, every header of its batch was
\* reported by an error-free result received during that call; a result for
\* a hash outside the batch does not count towards completion
C32_SuccessCoversBatch ==
    (verify.pc = "returned" /\ verify.err = "nil") =>
        \A i \in 1 .. Len(verify.headers) : verify.headers[i] \in hist.okHashes

\* the results counted by the call are for headers of its batch
CountedAreOfBatch ==
    verify.reqResponses \subseteq {verify.headers[i] : i \in 1 .. Len(verify.headers)}

\* the position in the walk of the first header that the store lacks
FirstGap ==
    CHOOSE i \in 1 .. WantedCount :
        /\ <<hist.last.request.highestBlockNumber - (i - 1), WantedHeaders[i]>> \notin db.headers
        /\ \A j \in 1 .. i - 1 :
              <<hist.last.request.highestBlockNumber - (j - 1), WantedHeaders[j]>> \in db.headers

\* C33: the block_error of a failed ancestor response names the hash whose
\* lookup failed together with the block number at which it was looked up
C33_BlockErrorNamesLookup ==
    (RequestAnswered /\ ~WantedStored) =>
        /\ hist.last.response.blockError.hash = WantedHeaders[FirstGap]
        /\ hist.last.response.blockError.number
               = hist.last.request.highestBlockNumber - (FirstGap - 1)

\* the hash of the block_error is the one whose lookup failed
BlockErrorHashIsLookup ==
    (RequestAnswered /\ ~WantedStored) =>
        hist.last.response.blockError.hash = WantedHeaders[FirstGap]

\* the number of the block_error is one above the number of the lookup
BlockErrorNumberOneAbove ==
    (RequestAnswered /\ ~WantedStored) =>
        hist.last.response.blockError.number
            = hist.last.request.highestBlockNumber - (FirstGap - 1) + 1

\* a linked batch was offered on a stored parent that was not canonical, and
\* no store access failed
DeepForkOffered == LinkBroken = FALSE /\ PrefixRemoved /\ OffCanonicalParent

\* C34: in every store that successful calls have built from genesis, the
\* backward walk of a deep fork ends at a number whose canonical hash is the
\* walked hash, at block 0 at the latest, after reading only headers that
\* the store holds, and never steps below block 0
C34_DeepForkWalkEnds ==
    DeepForkOffered =>
        /\ \E n \in 0 .. BatchParentNumber :
              n \in DOMAIN pre.canonical /\ pre.canonical[n] = ParentAncestorAt(n)
        /\ \A n \in CommonAncestorNumber .. BatchParentNumber :
              <<n, ParentAncestorAt(n)>> \in pre.headers
        /\ ret.err = "nil"
        /\ ret.newCanonical =>
              /\ ret.locals.deepFork
              /\ ret.forkBlockNumber = CommonAncestorNumber
              /\ ret.forkBlockNumber \in 0 .. BatchParentNumber

C34_Witness ==
    /\ DeepForkOffered /\ ret.newCanonical /\ ret.locals.deepFork
    /\ BatchParentNumber >= 2
    /\ ret.forkBlockNumber = 0

C34_WitnessAboveGenesis ==
    /\ DeepForkOffered /\ ret.newCanonical /\ ret.locals.deepFork
    /\ ret.forkBlockNumber = 1

====
